---- MODULE Spec2Model ----
(***************************************************************************)
(* Exam-attempt lifecycle of the LMS backend: the subscription entitlement *)
(* (user_subscriptions), the attempt ledger (exam_attempts), the exam      *)
(* session (student_exams), submitted answers, scored results, and the     *)
(* subscription expiry sweeper.                                            *)
(*                                                                         *)
(* Tables are sequences in primary-key order; a query without ORDER BY is  *)
(* taken to return rows in that order, so .first() is the lowest id and    *)
(* .all() is the whole sequence.  Every request handler is one action.     *)
(* Marks and percentages are carried in hundredths (the code rounds them   *)
(* to two decimal places).                                                 *)
(***************************************************************************)
EXTENDS Integers, Sequences, FiniteSets, TLC

(* ---------------------------- bounds ----------------------------------- *)
MaxExams == 3
MaxAnswers == 2
MaxResults == 2
MaxQuestions == 4
MaxQuestionRows == 3
MaxSubscriptions == 250
MaxRequests == 2
MaxExamRows == 1
MaxClock == 601
MaxUptime == 15100

(* ------------------------- program constants --------------------------- *)
\* Python None for a nullable column
None == -1
\* passing_percentage = 40.0, in hundredths of a percent
passing_percentage == 4000
\* batch_size of the expiry sweeper
batch_size == 100
\* SimpleCache(max_size=2000, ttl=300): seconds a cached response stays valid
ttl == 300
\* rate_limit_middleware: requests a client may have counted, and the seconds without
\* an accepted request after which its counter restarts
rate_limit == 500
rate_window == 60

ExamStatus == {"not_started", "in_progress", "completed"}
SubscriptionStatus == {"active", "expired", "cancelled"}

VARIABLES
    now,                 \* datetime.now()
    subscriptions,       \* plan id -> [max_exams]
    user_subscriptions,  \* entitlement id -> [status, end_date, plan]
    exams,               \* exam id -> [start_datetime, end_datetime, max_questions], with the
                         \* hierarchy ids where exams are created and edited
    exam_questions,      \* Seq of [exam_id, question_id, marks]
    answers,             \* answer id -> [question_id, is_correct]
    student_exams,       \* Seq of [student_id, exam_id, status]
    exam_attempts,       \* Seq of [user_subscription_id, exam_id, remaining_attempts]
    student_answers,     \* Seq of [student_exam_id, question_id, answer_id, is_correct]
    exam_results,        \* Seq of result rows
    response,            \* the response to the last request
    workflow,            \* which step of the create/start/complete workflow the run is at
    sweeper,             \* the run of update_expired_subscriptions: its locals and position
    inflight,            \* request slot -> the request being handled in it: what it has read
    app                  \* the state of the server process outside the database

vars == <<now, subscriptions, user_subscriptions, exams, exam_questions, answers,
          student_exams, exam_attempts, student_answers, exam_results, response,
          workflow, sweeper, inflight, app>>

\* the tables no request of the attempt lifecycle writes
config == <<subscriptions, user_subscriptions, exams, exam_questions, answers>>

\* the one student whose requests are modelled (current_user.id)
current_user == 1

(* ---------------------------- helpers ---------------------------------- *)
RECURSIVE FirstIndex(_, _, _)
\* index of the first element of seq at or after i that is in the set of wanted indices, 0 if none
FirstIndex(seq, wanted, i) ==
    IF i > Len(seq) THEN 0
    ELSE IF i \in wanted THEN i
    ELSE FirstIndex(seq, wanted, i + 1)

RECURSIVE SumSeq(_, _)
SumSeq(seq, i) == IF i > Len(seq) THEN 0 ELSE seq[i] + SumSeq(seq, i + 1)

\* round(num / den, 2) in hundredths, ties to even (Python 3 round)
Round2(num, den) ==
    LET q == (num * 100) \div den
        r == (num * 100) % den
    IN  IF 2 * r < den THEN q
        ELSE IF 2 * r > den THEN q + 1
        ELSE IF q % 2 = 0 THEN q ELSE q + 1

\* the latest datetime stored in the exam and entitlement tables: once it has passed,
\* the passing of time changes no decision
LastDate ==
    LET dates == {exams[e].end_datetime : e \in DOMAIN exams}
                 \cup {exams[e].start_datetime : e \in DOMAIN exams}
                 \cup {user_subscriptions[u].end_date : u \in DOMAIN user_subscriptions}
    IN  CHOOSE d \in dates : \A x \in dates : x <= d

(* ----------------------- entitlement resolver -------------------------- *)
\* the UserSubscription query of every handler: status active, end_date >= now, .first()
ActiveSubscription ==
    LET ok == {s \in DOMAIN user_subscriptions :
                  /\ user_subscriptions[s].status = "active"
                  /\ user_subscriptions[s].end_date >= now}
    IN  IF ok = {} THEN 0 ELSE CHOOSE s \in ok : \A t \in ok : s <= t

\* subscription.max_exams or 1
MaxAttempts(sub) ==
    LET m == subscriptions[user_subscriptions[sub].plan].max_exams
    IN  IF m = None \/ m = 0 THEN 1 ELSE m

(* --------------------------- attempt ledger ---------------------------- *)
\* get_exam_attempt: the first ledger row of (entitlement, exam), 0 if none
ExamAttemptIndex(attempts, sub, exam_id) ==
    FirstIndex(attempts,
               {i \in DOMAIN attempts : attempts[i].user_subscription_id = sub
                                        /\ attempts[i].exam_id = exam_id},
               1)

\* get_remaining_attempts of crud/exam_attempt.py:
\* attempt.remaining_attempts if attempt else 0
CrudGetRemainingAttempts(attempts, sub, exam_id) ==
    LET i == ExamAttemptIndex(attempts, sub, exam_id)
    IN  IF i # 0 THEN attempts[i].remaining_attempts ELSE 0

\* mutant: an existing row is always set to max_attempts
CreateOrUpdateExamAttemptReset(attempts, sub, exam_id, max_attempts) ==
    LET i == ExamAttemptIndex(attempts, sub, exam_id)
    IN  IF i # 0
        THEN [attempts EXCEPT ![i].remaining_attempts = max_attempts]
        ELSE Append(attempts, [user_subscription_id |-> sub, exam_id |-> exam_id,
                               remaining_attempts |-> max_attempts])

\* create_or_update_exam_attempt
CreateOrUpdateExamAttempt(attempts, sub, exam_id, max_attempts) ==
    LET i == ExamAttemptIndex(attempts, sub, exam_id)
    IN  IF i # 0
        THEN IF attempts[i].remaining_attempts < max_attempts
             THEN [attempts EXCEPT ![i].remaining_attempts = max_attempts]
             ELSE attempts
        ELSE Append(attempts, [user_subscription_id |-> sub, exam_id |-> exam_id,
                               remaining_attempts |-> max_attempts])

\* mutant: the query reports the plan's maximum without reading the ledger
RemainingAttemptsOfPlan(exam_id) == MaxAttempts(ActiveSubscription)

\* the remaining_attempts the GET /{exam_id}/attempts route reports
RemainingAttempts(exam_id) ==
    LET sub == ActiveSubscription
        i == ExamAttemptIndex(exam_attempts, sub, exam_id)
    IN  IF i = 0 THEN MaxAttempts(sub) ELSE exam_attempts[i].remaining_attempts

(* ----------------------------- sessions -------------------------------- *)
\* the existing session of (student, exam), 0 if none
ExistingExam(student_id, exam_id) ==
    FirstIndex(student_exams,
               {i \in DOMAIN student_exams : student_exams[i].student_id = student_id
                                             /\ student_exams[i].exam_id = exam_id},
               1)

\* the ledger after crud.create_student_exam: a new row seeded with max_attempts - 1
CrudCreateAttempts(exam_id) ==
    Append(exam_attempts,
           [user_subscription_id |-> ActiveSubscription, exam_id |-> exam_id,
            remaining_attempts |-> MaxAttempts(ActiveSubscription) - 1])

\* the outcome of POST /student-exams/
CreateOutcome(exam_id) ==
    IF exam_id \notin DOMAIN exams THEN "exam_not_found"
    ELSE IF ExistingExam(current_user, exam_id) # 0 THEN "existing"
    ELSE IF ActiveSubscription = 0 THEN "no_active_subscription"
    ELSE "created"

\* mutant: the route stops after crud.create_student_exam, without the top-up
CreateAttemptsSeedOnly(exam_id) ==
    IF CreateOutcome(exam_id) = "created" THEN CrudCreateAttempts(exam_id) ELSE exam_attempts

\* the ledger after POST /student-exams/: crud.create_student_exam, then
\* create_or_update_exam_attempt with the plan's maximum
CreateAttempts(exam_id) ==
    IF CreateOutcome(exam_id) = "created"
    THEN CreateOrUpdateExamAttempt(CrudCreateAttempts(exam_id), ActiveSubscription,
                                   exam_id, MaxAttempts(ActiveSubscription))
    ELSE exam_attempts

\* mutant: an existing session is given the requested status again
CreateSessionsResetStatus(exam_id, status) ==
    IF CreateOutcome(exam_id) = "created"
    THEN Append(student_exams,
                [student_id |-> current_user, exam_id |-> exam_id, status |-> status])
    ELSE IF CreateOutcome(exam_id) = "existing"
    THEN [student_exams EXCEPT ![ExistingExam(current_user, exam_id)].status = status]
    ELSE student_exams

\* the session table after POST /student-exams/
CreateSessions(exam_id, status) ==
    IF CreateOutcome(exam_id) = "created"
    THEN Append(student_exams,
                [student_id |-> current_user, exam_id |-> exam_id, status |-> status])
    ELSE student_exams

\* mutant: the entitlement is looked up before the exam's window is checked
StartOutcomeEntitlementFirst(id) ==
    IF id \notin DOMAIN student_exams THEN "not_found"
    ELSE IF student_exams[id].exam_id \notin DOMAIN exams THEN "exam_not_found"
    ELSE LET exam == exams[student_exams[id].exam_id]
             sub == ActiveSubscription
             i == ExamAttemptIndex(exam_attempts, sub, student_exams[id].exam_id)
         IN  IF sub = 0 THEN "no_active_subscription"
             ELSE IF exam.start_datetime # None /\ now < exam.start_datetime
             THEN "exam_not_started"
             ELSE IF exam.end_datetime # None /\ now > exam.end_datetime
             THEN "exam_ended"
             ELSE IF i # 0 /\ exam_attempts[i].remaining_attempts <= 0
             THEN "no_remaining_attempts"
             ELSE "ok"

\* the outcome of PUT /{student_exam_id}/start (route, then crud.start_student_exam)
StartOutcome(id) ==
    IF id \notin DOMAIN student_exams THEN "not_found"
    ELSE IF student_exams[id].exam_id \notin DOMAIN exams THEN "exam_not_found"
    ELSE LET exam == exams[student_exams[id].exam_id]
             sub == ActiveSubscription
             i == ExamAttemptIndex(exam_attempts, sub, student_exams[id].exam_id)
         IN  IF exam.start_datetime # None /\ now < exam.start_datetime
             THEN "exam_not_started"
             ELSE IF exam.end_datetime # None /\ now > exam.end_datetime
             THEN "exam_ended"
             ELSE IF sub = 0 THEN "no_active_subscription"
             ELSE IF i # 0 /\ exam_attempts[i].remaining_attempts <= 0
             THEN "no_remaining_attempts"
             ELSE "ok"

\* mutant: the decrement is applied before the request is validated
StartAttemptsBeforeCheck(id) ==
    IF id \in DOMAIN student_exams
    THEN LET i == ExamAttemptIndex(exam_attempts, ActiveSubscription,
                                   student_exams[id].exam_id)
         IN  IF i = 0 THEN exam_attempts
             ELSE [exam_attempts EXCEPT ![i].remaining_attempts = @ - 1]
    ELSE exam_attempts

\* the ledger after start: the row of (entitlement, exam), created with the plan's
\* maximum when absent, is decremented
StartAttempts(id) ==
    IF StartOutcome(id) = "ok"
    THEN LET exam_id == student_exams[id].exam_id
             sub == ActiveSubscription
             i == ExamAttemptIndex(exam_attempts, sub, exam_id)
         IN  IF i = 0
             THEN Append(exam_attempts,
                         [user_subscription_id |-> sub, exam_id |-> exam_id,
                          remaining_attempts |-> MaxAttempts(sub) - 1])
             ELSE [exam_attempts EXCEPT ![i].remaining_attempts = @ - 1]
    ELSE exam_attempts

\* mutant: a retake keeps the answers of the previous attempt
StartAnswersKept(id) == student_answers

\* the submitted answers after start: those of the session are deleted on a retake
StartAnswers(id) ==
    IF StartOutcome(id) = "ok" /\ student_exams[id].status # "not_started"
    THEN SelectSeq(student_answers, LAMBDA a : a.student_exam_id # id)
    ELSE student_answers

\* the session table after start
StartSessions(id) ==
    IF StartOutcome(id) = "ok"
    THEN [student_exams EXCEPT ![id].status = "in_progress"]
    ELSE student_exams

\* mutant: the deletion of the previous answers survives the failed commit
StartRolledBackAnswersDeleted(id) ==
    [student_exams |-> student_exams, exam_attempts |-> exam_attempts,
     student_answers |-> StartAnswers(id)]

\* the tables after the commit of start has failed: db.rollback() discards the pending
\* status change, the pending ledger write and the deletion of the previous answers
StartRolledBack(id) ==
    [student_exams |-> student_exams, exam_attempts |-> exam_attempts,
     student_answers |-> student_answers]

(* ------------------------- submitted answers --------------------------- *)
\* get_student_answers
GetStudentAnswers(id) ==
    SelectSeq(student_answers, LAMBDA a : a.student_exam_id = id)

\* crud.create_student_answer: is_correct is looked up from the Answer table
VerifiedIsCorrect(answer_id) ==
    IF answer_id # None /\ answer_id \in DOMAIN answers
    THEN answers[answer_id].is_correct
    ELSE FALSE

\* the submitted answers after POST /{student_exam_id}/answers
CreateStudentAnswer(id, question_id, answer_id) ==
    IF id \in DOMAIN student_exams
    THEN Append(student_answers,
                [student_exam_id |-> id, question_id |-> question_id,
                 answer_id |-> answer_id, is_correct |-> VerifiedIsCorrect(answer_id)])
    ELSE student_answers

\* crud.update_student_answer: is_correct is taken from the Answer table when answer_id
\* is given and found, and is the caller's is_correct otherwise
UpdatedIsCorrect(answer_id, is_correct) ==
    IF answer_id # None /\ answer_id # 0 /\ answer_id \in DOMAIN answers
    THEN answers[answer_id].is_correct
    ELSE is_correct

\* the submitted answers after crud.update_student_answer
UpdateStudentAnswerRows(student_answer_id, answer_id, is_correct) ==
    IF student_answer_id \in DOMAIN student_answers
    THEN [student_answers EXCEPT
             ![student_answer_id].answer_id = answer_id,
             ![student_answer_id].is_correct = UpdatedIsCorrect(answer_id, is_correct)]
    ELSE student_answers

(* --------------------------- scoring engine ---------------------------- *)
\* db.query(ExamQuestion).filter(exam_id == exam.id).all()
ExamQuestionsOf(exam_id) ==
    SelectSeq(exam_questions, LAMBDA eq : eq.exam_id = exam_id)

\* question_marks = {eq.question_id: eq.marks for eq in exam_questions}: the last row wins
QuestionMark(eqs, question_id) ==
    LET rows == {i \in DOMAIN eqs : eqs[i].question_id = question_id}
    IN  eqs[CHOOSE i \in rows : \A j \in rows : j <= i].marks

\* answered_questions = {answer.question_id: answer for answer in student_answers}
AnsweredCorrectly(sa, question_id) ==
    LET rows == {i \in DOMAIN sa : sa[i].question_id = question_id}
    IN  /\ rows # {}
        /\ sa[CHOOSE i \in rows : \A j \in rows : j <= i].is_correct

\* total_possible_marks = sum(eq.marks for eq in exam_questions)
TotalPossibleMarks(eqs) ==
    SumSeq([i \in DOMAIN eqs |-> eqs[i].marks], 1)

\* obtained_marks: the marks of every exam-question row whose question was answered correctly
ObtainedMarks(eqs, sa) ==
    SumSeq([i \in DOMAIN eqs |->
               IF AnsweredCorrectly(sa, eqs[i].question_id)
               THEN QuestionMark(eqs, eqs[i].question_id) ELSE 0], 1)

\* correct_answers
CorrectAnswers(eqs, sa) ==
    SumSeq([i \in DOMAIN eqs |->
               IF AnsweredCorrectly(sa, eqs[i].question_id) THEN 1 ELSE 0], 1)

\* mutant: max_marks is the sum of the marks of the exam-question rows
MaxMarksOfRows(eqs, max_questions) == TotalPossibleMarks(eqs) * 100

\* round(max_marks, 2) with max_marks = total_possible_marks / len(exam_questions) * max_questions
MaxMarks(eqs, max_questions) ==
    IF Len(eqs) = 0 THEN 0
    ELSE Round2(TotalPossibleMarks(eqs) * max_questions, Len(eqs))

\* round(obtained_marks / max_marks * 100, 2) if max_marks > 0 else 0
ScorePercentage(eqs, sa, max_questions) ==
    IF Len(eqs) = 0 \/ TotalPossibleMarks(eqs) * max_questions <= 0 THEN 0
    ELSE Round2(ObtainedMarks(eqs, sa) * 100 * Len(eqs),
                TotalPossibleMarks(eqs) * max_questions)

\* mutant: every result is written with the column default attempt_number = 1
NextAttemptNumberDefault(id) == 1

\* attempt_number = latest_result.attempt_number + 1 if latest_result else 1
NextAttemptNumber(id) ==
    LET nums == {exam_results[i].attempt_number :
                    i \in {j \in DOMAIN exam_results : exam_results[j].student_exam_id = id}}
    IN  IF nums = {} THEN 1 ELSE (CHOOSE n \in nums : \A m \in nums : m <= n) + 1

\* the result row complete_student_exam writes (marks and percentage in hundredths)
ResultData(id) ==
    LET exam_id == student_exams[id].exam_id
        eqs == ExamQuestionsOf(exam_id)
        sa == GetStudentAnswers(id)
        score == ScorePercentage(eqs, sa, exams[exam_id].max_questions)
    IN  [student_exam_id |-> id,
         attempt_number |-> NextAttemptNumber(id),
         total_questions |-> exams[exam_id].max_questions,
         correct_answers |-> CorrectAnswers(eqs, sa),
         score_percentage |-> score,
         obtained_marks |-> ObtainedMarks(eqs, sa) * 100,
         max_marks |-> MaxMarks(eqs, exams[exam_id].max_questions),
         passed_status |-> (score >= passing_percentage)]

\* the result table after PUT /{student_exam_id}/complete
CompleteResults(id) ==
    IF id \in DOMAIN student_exams THEN Append(exam_results, ResultData(id))
    ELSE exam_results

\* the session table after complete
CompleteSessions(id) ==
    IF id \in DOMAIN student_exams
    THEN [student_exams EXCEPT ![id].status = "completed"]
    ELSE student_exams

\* get_exam_result_by_student_exam: the id of the .first() of the session's result
\* rows, None if it has none
GetExamResultByStudentExam(results, id) ==
    LET rows == {i \in DOMAIN results : results[i].student_exam_id = id}
    IN  IF rows = {} THEN None ELSE CHOOSE i \in rows : \A j \in rows : i <= j

\* read_exam_result: the route calls complete_student_exam
ReadRecalculates(id, recalculate) ==
    /\ id \in DOMAIN student_exams
    /\ recalculate \/ GetExamResultByStudentExam(exam_results, id) = None
    /\ student_exams[id].status = "completed" \/ recalculate

(* ------------------------------ retake --------------------------------- *)
\* the ledger POST /{exam_id}/retake decrements: a row is created first when absent
RetakeLedger(exam_id) ==
    CreateOrUpdateExamAttempt(exam_attempts, ActiveSubscription, exam_id,
                              MaxAttempts(ActiveSubscription))

\* the outcome of POST /{exam_id}/retake
RetakeOutcome(exam_id) ==
    IF ActiveSubscription = 0 THEN "no_active_subscription"
    ELSE LET led == IF ExamAttemptIndex(exam_attempts, ActiveSubscription, exam_id) = 0
                    THEN RetakeLedger(exam_id) ELSE exam_attempts
             i == ExamAttemptIndex(led, ActiveSubscription, exam_id)
         IN  IF led[i].remaining_attempts <= 0 THEN "no_remaining_attempts" ELSE "ok"

\* the ledger after retake
RetakeAttempts(exam_id) ==
    IF ActiveSubscription = 0 THEN exam_attempts
    ELSE LET led == IF ExamAttemptIndex(exam_attempts, ActiveSubscription, exam_id) = 0
                    THEN RetakeLedger(exam_id) ELSE exam_attempts
             i == ExamAttemptIndex(led, ActiveSubscription, exam_id)
         IN  IF led[i].remaining_attempts <= 0 THEN led
             ELSE [led EXCEPT ![i].remaining_attempts = @ - 1]

(* ------------------------- concurrent requests ------------------------- *)
\* the request slots: requests handled at the same time, each in its own database session
Requests == 1 .. MaxRequests

\* a slot in which no request is being handled
IdleRequest ==
    [op |-> "none", pc |-> "idle", id |-> 0, status |-> "", sub |-> 0, row |-> 0,
     read |-> 0, session_status |-> "", outcome |-> ""]

NoInflight == [r \in Requests |-> IdleRequest]

\* what a start request holds once its checks have passed: the entitlement, the ledger
\* row and the remaining_attempts it has read (the plan's maximum for a row it is
\* about to insert), and the session status it has read
StartPending(id) ==
    LET exam_id == student_exams[id].exam_id
        sub == ActiveSubscription
        i == ExamAttemptIndex(exam_attempts, sub, exam_id)
    IN  [op |-> "start", pc |-> "pending", id |-> id, status |-> "", sub |-> sub,
         row |-> i,
         read |-> IF i = 0 THEN MaxAttempts(sub) ELSE exam_attempts[i].remaining_attempts,
         session_status |-> student_exams[id].status, outcome |-> ""]

\* mutant: the commit lowers the value the row holds at commit time
StartCommitAttemptsInPlace(req) ==
    IF req.row = 0
    THEN Append(exam_attempts,
                [user_subscription_id |-> req.sub, exam_id |-> student_exams[req.id].exam_id,
                 remaining_attempts |-> req.read - 1])
    ELSE [exam_attempts EXCEPT ![req.row].remaining_attempts = @ - 1]

\* the ledger after the commit of a start request: exam_attempt.remaining_attempts -= 1
\* was computed on the value the request had read, and that value is written
StartCommitAttempts(req) ==
    IF req.row = 0
    THEN Append(exam_attempts,
                [user_subscription_id |-> req.sub, exam_id |-> student_exams[req.id].exam_id,
                 remaining_attempts |-> req.read - 1])
    ELSE [exam_attempts EXCEPT ![req.row].remaining_attempts = req.read - 1]

\* the submitted answers after the commit of a start request
StartCommitAnswers(req) ==
    IF req.session_status # "not_started"
    THEN SelectSeq(student_answers, LAMBDA a : a.student_exam_id # req.id)
    ELSE student_answers

\* what a create request holds once its checks have passed (no session of the pair seen)
CreatePending(exam_id, status) ==
    [op |-> "create", pc |-> "pending", id |-> exam_id, status |-> status,
     sub |-> ActiveSubscription, row |-> 0, read |-> 0, session_status |-> "",
     outcome |-> ""]

\* the ledger after the writes of a create request: the row crud.create_student_exam
\* adds, then create_or_update_exam_attempt
CreateCommitAttempts(req) ==
    CreateOrUpdateExamAttempt(
        Append(exam_attempts,
               [user_subscription_id |-> req.sub, exam_id |-> req.id,
                remaining_attempts |-> MaxAttempts(req.sub) - 1]),
        req.sub, req.id, MaxAttempts(req.sub))

\* a slot whose request has been answered
Answered(req, outcome) == [req EXCEPT !.pc = "done", !.outcome = outcome]

(* --------------------------- exam hierarchy ---------------------------- *)
\* the columns that attach an exam to a node of the content hierarchy
HierarchyFields == {"course_id", "class_id", "subject_id", "chapter_id", "topic_id"}

\* non_zero_ids of the create and update routes: the fields of the request body that
\* are not None and greater than 0
NonZeroIds(body) == {k \in HierarchyFields : body[k] # None /\ body[k] > 0}

\* the other columns of an exam, as the requests of the model give them
ExamSchedule == [start_datetime |-> 1, end_datetime |-> 3, max_questions |-> 2]

\* the exam row crud.create_exam stores: 0 values have been converted to None
CreatedExam(body) ==
    ExamSchedule @@ [k \in HierarchyFields |-> IF body[k] = 0 THEN None ELSE body[k]]

\* the exam row after crud.update_exam: only the fields the request provides are set
\* (None is a field not provided, 0 clears the column)
UpdatedExam(exam, body) ==
    [k \in DOMAIN exam |->
        IF k \in HierarchyFields /\ body[k] # None
        THEN IF body[k] = 0 THEN None ELSE body[k]
        ELSE exam[k]]

(* ---------------------------- server process -------------------------- *)
\* the process before its startup event: the sweeper task does not exist yet, and
\* check_expired_subscriptions has bound no database session
SchedulerIdle == [task |-> "none", db |-> "unbound"]

\* the URL paths of the anonymous resources the model requests
Paths == {"/a", "/b"}

\* a key that is not in SimpleCache.cache
NoEntry == [data |-> None, timestamp |-> None]

\* SimpleCache.get: the data stored under the key if it is younger than ttl, else None
CacheGet(cache, path) ==
    IF cache[path] # NoEntry /\ now - cache[path].timestamp < ttl
    THEN cache[path].data
    ELSE None

\* the cache after SimpleCache.get: an entry found expired is deleted
CacheAfterGet(cache, path) ==
    IF cache[path] # NoEntry /\ ~(now - cache[path].timestamp < ttl)
    THEN [cache EXCEPT ![path] = NoEntry]
    ELSE cache

\* SimpleCache.set
CacheSet(cache, path, data) == [cache EXCEPT ![path] = [data |-> data, timestamp |-> now]]

\* mutant: only the method decides whether the cache is bypassed
CacheBypassedGetOnly(method, authorization) == method # "GET"

\* cache_middleware: the request goes straight to call_next
CacheBypassed(method, authorization) == method # "GET" \/ authorization

\* `if cache_data:` of cache_middleware: a cached body that is not None and not falsy
CacheHit(cache, path) == CacheGet(cache, path) # None /\ CacheGet(cache, path) # 0

\* the client addresses the rate limiter keeps counters for
Clients == {"10.0.0.1"}

\* getattr(request.app.state, ..., 0): the counters of a client that was never seen
NoCounters == [count |-> 0, time |-> 0]

\* request_count of rate_limit_middleware after the reset test: the stored counter,
\* or 0 when the last accepted request is more than rate_window seconds old
RequestCount(counters, current_time) ==
    IF current_time - counters.time > rate_window THEN 0 ELSE counters.count

\* the request is answered 429
RateLimitExceeded(counters, current_time) ==
    RequestCount(counters, current_time) > rate_limit

\* the process state of a server that has served nothing
AppIdle == [scheduler |-> SchedulerIdle, cache |-> [path \in Paths |-> NoEntry],
            rate_limit |-> [client_ip \in Clients |-> NoCounters]]

(* --------------------------- expiry sweeper ---------------------------- *)
\* the sweeper between two runs (check_expired_subscriptions asleep)
SweeperIdle ==
    [pc |-> "idle", current_time |-> 0, expired_subscriptions |-> << >>, i |-> 0,
     count |-> 0, failed |-> {}]

\* the query of update_expired_subscriptions: status active and end_date < current_time,
\* in primary-key order
ExpiredSubscriptions(current_time) ==
    SelectSeq([s \in DOMAIN user_subscriptions |-> s],
              LAMBDA s : /\ user_subscriptions[s].status = "active"
                         /\ user_subscriptions[s].end_date < current_time)

\* batch = expired_subscriptions[i:i + batch_size]
Batch(list, i) ==
    SubSeq(list, i + 1, IF i + batch_size < Len(list) THEN i + batch_size ELSE Len(list))

\* the table once the batch is committed: every row of the batch is expired
ExpireBatch(table, batch) ==
    LET ids == {batch[k] : k \in DOMAIN batch}
    IN  [s \in DOMAIN table |->
            IF s \in ids THEN [table[s] EXCEPT !.status = "expired"] ELSE table[s]]

\* mutant: a failed commit ends the run
NextBatchAbort(list, i, committed) ==
    IF committed THEN i + batch_size ELSE Len(list)

\* for i in range(0, len(expired_subscriptions), batch_size), with `continue` after a
\* failed commit
NextBatch(list, i, committed) == i + batch_size

(* --------------------------- workflow monitor -------------------------- *)
\* the step of the workflow of tests/test_exam_workflow.py a run has reached: a session
\* created with the default status, started, completed, started again; "off" once
\* any other request has changed the state
WorkflowAfter(op, outcome, status) ==
    IF op = "create" /\ outcome = "created"
    THEN IF workflow.stage = "fresh" /\ status = "not_started"
         THEN [stage |-> "created", sub |-> ActiveSubscription]
         ELSE [workflow EXCEPT !.stage = "off"]
    ELSE IF op = "start" /\ outcome = "ok"
    THEN IF workflow.stage = "created" THEN [workflow EXCEPT !.stage = "started"]
         ELSE IF workflow.stage = "completed" THEN [workflow EXCEPT !.stage = "restarted"]
         ELSE [workflow EXCEPT !.stage = "off"]
    ELSE IF op = "complete" /\ outcome = "ok"
    THEN IF workflow.stage = "started" THEN [workflow EXCEPT !.stage = "completed"]
         ELSE [workflow EXCEPT !.stage = "off"]
    ELSE IF op = "retake" /\ outcome = "ok"
    THEN [workflow EXCEPT !.stage = "off"]
    ELSE IF op = "answer" /\ outcome = "ok" /\ workflow.stage = "completed"
    THEN [workflow EXCEPT !.stage = "off"]
    ELSE workflow

(* ------------------------------ requests ------------------------------- *)
\* POST /student-exams/
CreateStudentExam(exam_id, status) ==
    /\ student_exams' = CreateSessions(exam_id, status)
    /\ exam_attempts' = CreateAttempts(exam_id)
    /\ response' = [op |-> "create", outcome |-> CreateOutcome(exam_id), value |-> 0]
    /\ workflow' = WorkflowAfter("create", CreateOutcome(exam_id), status)
    /\ UNCHANGED <<app, inflight, now, config, sweeper, student_answers, exam_results>>

\* PUT /student-exams/{student_exam_id}/start
StartStudentExam(id) ==
    /\ student_exams' = StartSessions(id)
    /\ exam_attempts' = StartAttempts(id)
    /\ student_answers' = StartAnswers(id)
    /\ response' = [op |-> "start", outcome |-> StartOutcome(id), value |-> id]
    /\ workflow' = WorkflowAfter("start", StartOutcome(id), "")
    /\ UNCHANGED <<app, inflight, now, config, sweeper, exam_results>>

\* PUT /student-exams/{student_exam_id}/start when db.commit() raises: the transaction
\* is rolled back and the request is answered with an error
StartStudentExamCommitFails(id) ==
    /\ StartOutcome(id) = "ok"
    /\ student_exams' = StartRolledBack(id).student_exams
    /\ exam_attempts' = StartRolledBack(id).exam_attempts
    /\ student_answers' = StartRolledBack(id).student_answers
    /\ response' = [op |-> "start", outcome |-> "commit_failed", value |-> id]
    /\ UNCHANGED <<app, inflight, now, config, sweeper, exam_results, workflow>>

\* PUT /{student_exam_id}/start, first part: the checks of the route and of
\* crud.start_student_exam, which read the session, the exam, the entitlement and the
\* ledger row; a request that fails a check is answered at once
StartBegin(r, id) ==
    /\ inflight[r].pc # "pending"
    /\ IF StartOutcome(id) = "ok"
       THEN /\ inflight' = [inflight EXCEPT ![r] = StartPending(id)]
            /\ UNCHANGED response
       ELSE /\ inflight' = [inflight EXCEPT ![r] = IdleRequest]
            /\ response' = [op |-> "start", outcome |-> StartOutcome(id), value |-> id]
    /\ UNCHANGED <<app, now, config, sweeper, student_exams, exam_attempts, student_answers,
                   exam_results, workflow>>

\* PUT /{student_exam_id}/start, second part: db.commit() writes the status, the ledger
\* value computed from what was read, and the deletion of the answers; or it fails
StartFinish(r, committed) ==
    /\ inflight[r].op = "start"
    /\ inflight[r].pc = "pending"
    /\ IF committed
       THEN /\ student_exams' = [student_exams EXCEPT ![inflight[r].id].status = "in_progress"]
            /\ exam_attempts' = StartCommitAttempts(inflight[r])
            /\ student_answers' = StartCommitAnswers(inflight[r])
            /\ workflow' = [workflow EXCEPT !.stage = "off"]
       ELSE UNCHANGED <<app, student_exams, exam_attempts, student_answers, workflow>>
    /\ inflight' = [inflight EXCEPT
                       ![r] = Answered(@, IF committed THEN "ok" ELSE "commit_failed")]
    /\ response' = [op |-> "start",
                    outcome |-> IF committed THEN "ok" ELSE "commit_failed",
                    value |-> inflight[r].id]
    /\ UNCHANGED <<app, now, config, sweeper, exam_results>>

\* POST /student-exams/, first part: the checks of the route (exam exists, no session of
\* the pair yet, active subscription); a request that stops there is answered at once
CreateBegin(r, exam_id, status) ==
    /\ inflight[r].pc # "pending"
    /\ IF CreateOutcome(exam_id) = "created"
       THEN /\ inflight' = [inflight EXCEPT ![r] = CreatePending(exam_id, status)]
            /\ UNCHANGED response
       ELSE /\ inflight' = [inflight EXCEPT ![r] = IdleRequest]
            /\ response' = [op |-> "create", outcome |-> CreateOutcome(exam_id),
                            value |-> 0]
    /\ UNCHANGED <<app, now, config, sweeper, student_exams, exam_attempts, student_answers,
                   exam_results, workflow>>

\* POST /student-exams/, second part: crud.create_student_exam inserts the session and
\* its ledger row, then create_or_update_exam_attempt
CreateFinish(r) ==
    /\ inflight[r].op = "create"
    /\ inflight[r].pc = "pending"
    /\ student_exams' = Append(student_exams,
                               [student_id |-> current_user, exam_id |-> inflight[r].id,
                                status |-> inflight[r].status])
    /\ exam_attempts' = CreateCommitAttempts(inflight[r])
    /\ inflight' = [inflight EXCEPT ![r] = Answered(@, "created")]
    /\ response' = [op |-> "create", outcome |-> "created", value |-> 0]
    /\ workflow' = [workflow EXCEPT !.stage = "off"]
    /\ UNCHANGED <<app, now, config, sweeper, student_answers, exam_results>>

\* POST /student-exams/{student_exam_id}/answers
SubmitAnswer(id, question_id, answer_id) ==
    /\ Len(student_answers) < MaxAnswers
    /\ student_answers' = CreateStudentAnswer(id, question_id, answer_id)
    /\ response' = [op |-> "answer",
                    outcome |-> IF id \in DOMAIN student_exams THEN "ok" ELSE "not_found",
                    value |-> id]
    /\ workflow' = WorkflowAfter("answer",
                                 IF id \in DOMAIN student_exams THEN "ok" ELSE "not_found", "")
    /\ UNCHANGED <<app, inflight, now, config, sweeper, student_exams, exam_attempts, exam_results>>

\* POST /student-exams/{student_exam_id}/answers with the is_correct field of the
\* request body, which create_student_answer does not read
SubmitAnswerClaiming(id, question_id, answer_id, is_correct) ==
    /\ Len(student_answers) < MaxAnswers
    /\ student_answers' = CreateStudentAnswer(id, question_id, answer_id)
    /\ response' = [op |-> "answer",
                    outcome |-> IF id \in DOMAIN student_exams THEN "ok" ELSE "not_found",
                    value |-> id]
    /\ UNCHANGED <<app, inflight, now, config, sweeper, student_exams, exam_attempts,
                   exam_results, workflow>>

\* a call of crud.update_student_answer(db, student_answer_id, answer_id, is_correct)
UpdateStudentAnswer(student_answer_id, answer_id, is_correct) ==
    /\ student_answers' = UpdateStudentAnswerRows(student_answer_id, answer_id, is_correct)
    /\ response' = [op |-> "update_answer",
                    outcome |-> IF student_answer_id \in DOMAIN student_answers
                                THEN "ok" ELSE "not_found",
                    value |-> student_answer_id]
    /\ UNCHANGED <<app, inflight, now, config, sweeper, student_exams, exam_attempts,
                   exam_results, workflow>>

\* GET /student-exams/{student_exam_id}/result
ReadExamResult(id, recalculate) ==
    /\ ReadRecalculates(id, recalculate) => Len(exam_results) < MaxResults
    /\ exam_results' = IF ReadRecalculates(id, recalculate) THEN CompleteResults(id)
                       ELSE exam_results
    /\ student_exams' = IF ReadRecalculates(id, recalculate) THEN CompleteSessions(id)
                        ELSE student_exams
    /\ response' = [op |-> "read_result",
                    outcome |-> IF id \notin DOMAIN student_exams THEN "not_found"
                                ELSE IF ReadRecalculates(id, recalculate) THEN "ok"
                                ELSE IF GetExamResultByStudentExam(exam_results, id) = None
                                THEN "result_not_found"
                                ELSE "ok",
                    value |-> IF ReadRecalculates(id, recalculate)
                              THEN GetExamResultByStudentExam(CompleteResults(id), id)
                              ELSE IF id \in DOMAIN student_exams
                              THEN GetExamResultByStudentExam(exam_results, id)
                              ELSE None,
                    recalculate |-> recalculate]
    /\ UNCHANGED <<app, inflight, now, config, sweeper, exam_attempts, student_answers,
                   workflow>>

\* mutant: completing a session consumes an attempt of its ledger row
CompleteStudentExamConsuming(id) ==
    /\ Len(exam_results) < MaxResults
    /\ exam_results' = CompleteResults(id)
    /\ student_exams' = CompleteSessions(id)
    /\ exam_attempts' = [i \in DOMAIN exam_attempts |->
                            [exam_attempts[i] EXCEPT !.remaining_attempts = @ - 1]]
    /\ response' = [op |-> "complete",
                    outcome |-> IF id \in DOMAIN student_exams THEN "ok" ELSE "not_found",
                    value |-> id]
    /\ workflow' = WorkflowAfter("complete",
                                 IF id \in DOMAIN student_exams THEN "ok" ELSE "not_found", "")
    /\ UNCHANGED <<app, inflight, now, config, sweeper, student_answers>>

\* PUT /student-exams/{student_exam_id}/complete
CompleteStudentExam(id) ==
    /\ Len(exam_results) < MaxResults
    /\ exam_results' = CompleteResults(id)
    /\ student_exams' = CompleteSessions(id)
    /\ response' = [op |-> "complete",
                    outcome |-> IF id \in DOMAIN student_exams THEN "ok" ELSE "not_found",
                    value |-> id]
    /\ workflow' = WorkflowAfter("complete",
                                 IF id \in DOMAIN student_exams THEN "ok" ELSE "not_found", "")
    /\ UNCHANGED <<app, inflight, now, config, sweeper, exam_attempts, student_answers>>

\* POST /student-exams/{exam_id}/retake
RetakeExam(exam_id) ==
    /\ exam_attempts' = RetakeAttempts(exam_id)
    /\ response' = [op |-> "retake", outcome |-> RetakeOutcome(exam_id),
                    value |-> IF RetakeOutcome(exam_id) = "ok"
                              THEN RetakeAttempts(exam_id)[
                                       ExamAttemptIndex(RetakeAttempts(exam_id),
                                                        ActiveSubscription,
                                                        exam_id)].remaining_attempts
                              ELSE 0]
    /\ workflow' = WorkflowAfter("retake", RetakeOutcome(exam_id), "")
    /\ UNCHANGED <<app, inflight, now, config, sweeper, student_exams, student_answers, exam_results>>

\* GET /student-exams/{exam_id}/attempts
GetRemainingAttempts(exam_id) ==
    /\ response' = IF ActiveSubscription = 0
                   THEN [op |-> "attempts", outcome |-> "error", value |-> 0]
                   ELSE [op |-> "attempts", outcome |-> "ok",
                         value |-> RemainingAttempts(exam_id)]
    /\ UNCHANGED <<app, inflight, now, config, sweeper, student_exams, exam_attempts, student_answers,
                   exam_results, workflow>>

\* DELETE /exams/{exam_id}: the exam and its exam-question rows are deleted; the
\* session and ledger rows that referred to it are kept with exam_id set to NULL
DeleteExam(exam_id) ==
    /\ exam_id \in DOMAIN exams
    /\ exams' = [e \in DOMAIN exams \ {exam_id} |-> exams[e]]
    /\ exam_questions' = SelectSeq(exam_questions, LAMBDA q : q.exam_id # exam_id)
    /\ student_exams' = [i \in DOMAIN student_exams |->
                            IF student_exams[i].exam_id = exam_id
                            THEN [student_exams[i] EXCEPT !.exam_id = None]
                            ELSE student_exams[i]]
    /\ exam_attempts' = [i \in DOMAIN exam_attempts |->
                            IF exam_attempts[i].exam_id = exam_id
                            THEN [exam_attempts[i] EXCEPT !.exam_id = None]
                            ELSE exam_attempts[i]]
    /\ response' = [op |-> "delete_exam", outcome |-> "ok", value |-> exam_id]
    /\ workflow' = [workflow EXCEPT !.stage = "off"]
    /\ UNCHANGED <<app, inflight, now, subscriptions, user_subscriptions, answers, sweeper,
                   student_answers, exam_results>>

\* a call of crud get_remaining_attempts(db, user_subscription_id, exam_id)
LookupRemaining(sub, exam_id) ==
    /\ response' = [op |-> "get_remaining", outcome |-> "ok",
                    value |-> CrudGetRemainingAttempts(exam_attempts, sub, exam_id),
                    sub |-> sub, exam_id |-> exam_id]
    /\ UNCHANGED <<app, inflight, now, config, sweeper, student_exams, exam_attempts,
                   student_answers, exam_results, workflow>>

\* a call of create_or_update_exam_attempt(db, user_subscription_id, exam_id, max_attempts)
EnsureLedger(sub, exam_id, max_attempts) ==
    /\ exam_attempts' = CreateOrUpdateExamAttempt(exam_attempts, sub, exam_id, max_attempts)
    /\ response' = [op |-> "ensure_ledger", outcome |-> "ok",
                    value |-> CrudGetRemainingAttempts(
                                  CreateOrUpdateExamAttempt(exam_attempts, sub, exam_id,
                                                            max_attempts),
                                  sub, exam_id),
                    sub |-> sub, exam_id |-> exam_id, max_attempts |-> max_attempts]
    /\ UNCHANGED <<app, inflight, now, config, sweeper, student_exams, student_answers,
                   exam_results, workflow>>

\* startup_event: start_scheduler adds check_expired_subscriptions to a BackgroundTasks
\* object created in the event handler; the object is dropped when the handler returns
\* and nothing calls it, so the task stays a queued entry of a discarded list
StartupEvent ==
    /\ app.scheduler.task = "none"
    /\ app' = [app EXCEPT !.scheduler.task = "queued"]
    /\ UNCHANGED <<inflight, now, config, sweeper, student_exams, exam_attempts,
                   student_answers, exam_results, response, workflow>>

\* update_expired_subscriptions up to the loop: the query, and `return 0` when it is empty
SweepQuery ==
    /\ sweeper.pc = "idle"
    /\ sweeper' = [pc |-> IF ExpiredSubscriptions(now) = << >> THEN "done" ELSE "batches",
                   current_time |-> now,
                   expired_subscriptions |-> ExpiredSubscriptions(now),
                   i |-> 0, count |-> 0, failed |-> {}]
    /\ UNCHANGED <<app, inflight, now, config, student_exams, exam_attempts, student_answers,
                   exam_results, response, workflow>>

\* one iteration of the batch loop: the rows of the batch are marked expired and counted,
\* then the commit succeeds, or fails and is rolled back; `return count` after the last
SweepBatch(committed) ==
    /\ sweeper.pc = "batches"
    /\ LET list == sweeper.expired_subscriptions
           batch == Batch(list, sweeper.i)
           next == NextBatch(list, sweeper.i, committed)
       IN  /\ user_subscriptions' = IF committed
                                     THEN ExpireBatch(user_subscriptions, batch)
                                     ELSE user_subscriptions
           /\ sweeper' = [sweeper EXCEPT
                             !.pc = IF next < Len(list) THEN "batches" ELSE "done",
                             !.i = next,
                             !.count = @ + Len(batch),
                             !.failed = IF committed THEN @ ELSE @ \cup {sweeper.i}]
    /\ UNCHANGED <<app, inflight, now, subscriptions, exams, exam_questions, answers, student_exams,
                   exam_attempts, student_answers, exam_results, response, workflow>>

\* check_expired_subscriptions: the run is over, sleep until the next one
SweepSleep ==
    /\ sweeper.pc = "done"
    /\ sweeper' = SweeperIdle
    /\ UNCHANGED <<app, inflight, now, config, student_exams, exam_attempts, student_answers,
                   exam_results, response, workflow>>

\* check_expired_subscriptions, top of the loop body: db = SessionLocal() succeeds, or
\* raises; then the exception is logged and `finally: db.close()` runs, on the session
\* of the previous iteration, or on an unbound name in the first one
LoopOpen(opened) ==
    /\ app.scheduler.task = "running"
    /\ app.scheduler.db # "open"
    /\ sweeper.pc = "idle"
    /\ app' = IF opened THEN [app EXCEPT !.scheduler.db = "open"]
              ELSE IF app.scheduler.db = "unbound"
              THEN [app EXCEPT !.scheduler.task = "crashed"]
              ELSE app
    /\ UNCHANGED <<inflight, now, config, sweeper, student_exams, exam_attempts,
                   student_answers, exam_results, response, workflow>>

\* the loop calls update_expired_subscriptions(db)
LoopQuery ==
    /\ app.scheduler.task = "running"
    /\ app.scheduler.db = "open"
    /\ SweepQuery

\* update_expired_subscriptions raises outside the batches (the query fails): it rolls
\* back and re-raises; the loop logs, closes the session and sleeps
LoopQueryFails ==
    /\ app.scheduler.task = "running"
    /\ app.scheduler.db = "open"
    /\ sweeper.pc = "idle"
    /\ app' = [app EXCEPT !.scheduler.db = "closed"]
    /\ UNCHANGED <<inflight, now, config, sweeper, student_exams, exam_attempts,
                   student_answers, exam_results, response, workflow>>

\* the run is over: finally db.close(), then asyncio.sleep(900)
LoopSleep ==
    /\ app.scheduler.task = "running"
    /\ sweeper.pc = "done"
    /\ sweeper' = SweeperIdle
    /\ app' = [app EXCEPT !.scheduler.db = "closed"]
    /\ UNCHANGED <<inflight, now, config, student_exams, exam_attempts, student_answers,
                   exam_results, response, workflow>>

\* PUT /subscriptions/{subscription_id} with max_exams in the body: the plan row is
\* updated in place
UpdateSubscription(subscription_id, max_exams) ==
    /\ subscriptions' = IF subscription_id \in DOMAIN subscriptions
                        THEN [subscriptions EXCEPT ![subscription_id].max_exams = max_exams]
                        ELSE subscriptions
    /\ response' = [op |-> "update_plan",
                    outcome |-> IF subscription_id \in DOMAIN subscriptions
                                THEN "ok" ELSE "not_found",
                    value |-> max_exams]
    /\ UNCHANGED <<app, inflight, now, user_subscriptions, exams, exam_questions, answers,
                   sweeper, student_exams, exam_attempts, student_answers, exam_results,
                   workflow>>

\* POST /exams/; a refusal names the offending fields
CreateExam(body) ==
    /\ Len(exams) < MaxExamRows
    /\ exams' = IF Cardinality(NonZeroIds(body)) > 1 THEN exams
                ELSE Append(exams, CreatedExam(body))
    /\ response' = [op |-> "create_exam",
                    outcome |-> IF Cardinality(NonZeroIds(body)) > 1
                                THEN "multiple_hierarchy_ids" ELSE "ok",
                    value |-> 0,
                    fields |-> IF Cardinality(NonZeroIds(body)) > 1
                               THEN NonZeroIds(body) ELSE {}]
    /\ UNCHANGED <<app, inflight, now, subscriptions, user_subscriptions, exam_questions,
                   answers, sweeper, student_exams, exam_attempts, student_answers,
                   exam_results, workflow>>

\* PUT /exams/{exam_id}
UpdateExam(exam_id, body) ==
    /\ exams' = IF exam_id \notin DOMAIN exams \/ Cardinality(NonZeroIds(body)) > 1
                THEN exams
                ELSE [exams EXCEPT ![exam_id] = UpdatedExam(@, body)]
    /\ response' = [op |-> "update_exam",
                    outcome |-> IF exam_id \notin DOMAIN exams THEN "not_found"
                                ELSE IF Cardinality(NonZeroIds(body)) > 1
                                THEN "multiple_hierarchy_ids" ELSE "ok",
                    value |-> exam_id,
                    fields |-> {}]
    /\ UNCHANGED <<app, inflight, now, subscriptions, user_subscriptions, exam_questions,
                   answers, sweeper, student_exams, exam_attempts, student_answers,
                   exam_results, workflow>>

\* one HTTP request through cache_middleware; status and body are what the route
\* handler answers if it is called (body.json: the body parses as JSON)
HttpRequest(method, authorization, path, status, body) ==
    /\ app' = IF CacheBypassed(method, authorization) THEN app
              ELSE IF CacheHit(app.cache, path) THEN app
              ELSE IF status = 200 /\ body.json
              THEN [app EXCEPT !.cache = CacheSet(CacheAfterGet(app.cache, path), path,
                                                  body.data)]
              ELSE [app EXCEPT !.cache = CacheAfterGet(app.cache, path)]
    /\ response' = IF ~CacheBypassed(method, authorization) /\ CacheHit(app.cache, path)
                   THEN [op |-> "http", outcome |-> 200,
                         value |-> CacheGet(app.cache, path), source |-> "cache",
                         method |-> method, authorization |-> authorization,
                         path |-> path]
                   ELSE [op |-> "http", outcome |-> status, value |-> body.data,
                         source |-> "handler", method |-> method,
                         authorization |-> authorization, path |-> path]
    /\ UNCHANGED <<inflight, now, config, sweeper, student_exams, exam_attempts,
                   student_answers, exam_results, workflow>>

\* rate_limit_middleware for a request that arrives gap seconds after the previous one
RateLimitedRequest(client_ip, gap) ==
    /\ now + gap <= MaxUptime
    /\ now' = now + gap
    /\ app' = IF RateLimitExceeded(app.rate_limit[client_ip], now + gap) THEN app
              ELSE [app EXCEPT !.rate_limit[client_ip] =
                       [count |-> RequestCount(app.rate_limit[client_ip], now + gap) + 1,
                        time |-> now + gap]]
    /\ response' = [op |-> "rate_limit",
                    outcome |-> IF RateLimitExceeded(app.rate_limit[client_ip], now + gap)
                                THEN 429 ELSE 200,
                    value |-> RequestCount(app.rate_limit[client_ip], now + gap),
                    client_ip |-> client_ip]
    /\ UNCHANGED <<inflight, config, sweeper, student_exams, exam_attempts,
                   student_answers, exam_results, workflow>>

\* time.time() advances
Elapse(seconds) ==
    /\ now + seconds <= MaxClock
    /\ now' = now + seconds
    /\ UNCHANGED <<app, inflight, config, sweeper, student_exams, exam_attempts,
                   student_answers, exam_results, response, workflow>>

\* time passes
Tick ==
    /\ now <= LastDate
    /\ now' = now + 1
    /\ UNCHANGED <<app, inflight, config, sweeper, student_exams, exam_attempts, student_answers,
                   exam_results, response, workflow>>

(* --------------------------- specification ----------------------------- *)
\* max_exams of a plan: 0 or a positive number
PlanMaxExams == 0 .. MaxExams

\* the exam of tests/test_exam_workflow.py: two questions worth 50 marks each
WorkflowExam == [start_datetime |-> 1, end_datetime |-> 3, max_questions |-> 2]
WorkflowExamQuestions ==
    << [exam_id |-> 1, question_id |-> 1, marks |-> 50],
       [exam_id |-> 1, question_id |-> 2, marks |-> 50] >>
\* the Answer table: answer 1 is a wrong answer, answer 2 a correct one
AnswerTable ==
    (1 :> [question_id |-> 1, is_correct |-> FALSE])
    @@ (2 :> [question_id |-> 1, is_correct |-> TRUE])

\* nothing requested yet
NoRequests ==
    /\ student_exams = << >>
    /\ exam_attempts = << >>
    /\ student_answers = << >>
    /\ exam_results = << >>
    /\ response = [op |-> "none", outcome |-> "none", value |-> 0]
    /\ workflow = [stage |-> "fresh", sub |-> 0]
    /\ sweeper = SweeperIdle
    /\ inflight = NoInflight
    /\ app = AppIdle

\* Two entitlements on two different plans: the first expires at time 1, the second
\* at time 2; the exam is open from 1 to 3.
Init ==
    /\ now = 0
    /\ \E m \in PlanMaxExams :
          subscriptions = (1 :> [max_exams |-> m]) @@ (2 :> [max_exams |-> MaxExams - m])
    /\ user_subscriptions =
          (1 :> [status |-> "active", end_date |-> 1, plan |-> 1])
          @@ (2 :> [status |-> "active", end_date |-> 2, plan |-> 2])
    /\ exams = (1 :> WorkflowExam)
    /\ exam_questions = WorkflowExamQuestions
    /\ answers = AnswerTable
    /\ NoRequests

Next ==
    \/ \E status \in ExamStatus : CreateStudentExam(1, status)
    \/ StartStudentExam(1)
    \/ StartStudentExamCommitFails(1)
    \/ SubmitAnswer(1, 1, 2)
    \/ CompleteStudentExam(1)
    \/ RetakeExam(1)
    \/ GetRemainingAttempts(1)
    \/ Tick

Spec == Init /\ [][Next]_vars

\* The scenario of the workflow test with a plan of max_exams = 2, inside the exam's
\* window, with every request (known and unknown ids) the student can send.
InitWorkflow ==
    /\ now = 1
    /\ subscriptions = (1 :> [max_exams |-> 2])
    /\ user_subscriptions = (1 :> [status |-> "active", end_date |-> 3, plan |-> 1])
    /\ exams = (1 :> WorkflowExam)
    /\ exam_questions = WorkflowExamQuestions
    /\ answers = AnswerTable
    /\ NoRequests

NextWorkflow ==
    \/ \E exam_id \in {1, 2}, status \in ExamStatus : CreateStudentExam(exam_id, status)
    \/ \E id \in {1, 2} : StartStudentExam(id)
    \/ \E id \in {1, 2}, q \in {1, 2}, a \in {1, 2} : SubmitAnswer(id, q, a)
    \/ \E id \in {1, 2} : CompleteStudentExam(id)
    \/ RetakeExam(1)
    \/ GetRemainingAttempts(1)

SpecWorkflow == InitWorkflow /\ [][NextWorkflow]_vars

\* Scoring: one session in progress on an exam of any configuration (max_questions, up
\* to MaxQuestionRows exam-question rows with marks 5 or 10); the student answers
\* the next question or answers the first one again, rightly or wrongly, and completes.
MarkValues == {5, 10}

ExamQuestionRows(marks) ==
    [q \in DOMAIN marks |-> [exam_id |-> 1, question_id |-> q, marks |-> marks[q]]]

InitScore ==
    /\ now = 1
    /\ subscriptions = (1 :> [max_exams |-> 1])
    /\ user_subscriptions = (1 :> [status |-> "active", end_date |-> 3, plan |-> 1])
    /\ \E mq \in 0 .. MaxQuestions :
          exams = (1 :> [start_datetime |-> 1, end_datetime |-> 3, max_questions |-> mq])
    /\ \E n \in 0 .. MaxQuestionRows : \E marks \in [1 .. n -> MarkValues] :
          exam_questions = ExamQuestionRows(marks)
    /\ answers = AnswerTable
    /\ student_exams = <<[student_id |-> current_user, exam_id |-> 1,
                          status |-> "in_progress"]>>
    /\ exam_attempts = <<[user_subscription_id |-> 1, exam_id |-> 1,
                          remaining_attempts |-> 0]>>
    /\ student_answers = << >>
    /\ exam_results = << >>
    /\ response = [op |-> "start", outcome |-> "ok", value |-> 1]
    /\ workflow = [stage |-> "started", sub |-> 1]
    /\ sweeper = SweeperIdle
    /\ inflight = NoInflight
    /\ app = AppIdle

NextScore ==
    \/ \E q \in {1, Len(student_answers) + 1}, a \in {1, 2} : SubmitAnswer(1, q, a)
    \/ CompleteStudentExam(1)

SpecScore == InitScore /\ [][NextScore]_vars

\* The sweeper over a table of up to MaxSubscriptions entitlements.  All of them are
\* due (active, end_date < now), or, when mixed, every seventh is cancelled and every
\* seventh ends exactly now (not yet due).
SweepRow(s, mixed) ==
    IF mixed /\ s % 7 = 0 THEN [status |-> "cancelled", end_date |-> 1, plan |-> 1]
    ELSE IF mixed /\ s % 7 = 3 THEN [status |-> "active", end_date |-> 2, plan |-> 1]
    ELSE [status |-> "active", end_date |-> 1, plan |-> 1]

InitSweep ==
    /\ now = 2
    /\ subscriptions = (1 :> [max_exams |-> 1])
    /\ \E n \in 0 .. MaxSubscriptions, mixed \in BOOLEAN :
          user_subscriptions = [s \in 1 .. n |-> SweepRow(s, mixed)]
    /\ exams = (1 :> WorkflowExam)
    /\ exam_questions = WorkflowExamQuestions
    /\ answers = AnswerTable
    /\ NoRequests

NextSweep ==
    \/ SweepQuery
    \/ \E committed \in BOOLEAN : SweepBatch(committed)
    \/ SweepSleep

SpecSweep == InitSweep /\ [][NextSweep]_vars

\* The start checks: an exam with or without bounds of its window, an entitlement that
\* ends before or after the window, a plan of one attempt; the student creates the
\* session and starts known and unknown sessions while time passes, and the teacher
\* may delete the exam.
WindowStarts == {None, 2}
WindowEnds == {None, 3}
EntitlementEnds == {1, 4}

InitWindow ==
    /\ now = 0
    /\ subscriptions = (1 :> [max_exams |-> 1])
    /\ \E e \in EntitlementEnds :
          user_subscriptions = (1 :> [status |-> "active", end_date |-> e, plan |-> 1])
    /\ \E s \in WindowStarts, e \in WindowEnds :
          exams = (1 :> [start_datetime |-> s, end_datetime |-> e, max_questions |-> 2])
    /\ exam_questions = WorkflowExamQuestions
    /\ answers = AnswerTable
    /\ NoRequests

NextWindow ==
    \/ CreateStudentExam(1, "not_started")
    \/ \E id \in {1, 2} : StartStudentExam(id)
    \/ DeleteExam(1)
    \/ Tick

SpecWindow == InitWindow /\ [][NextWindow]_vars

\* The ledger functions: two entitlements in force on a plan of any positive max_exams,
\* two exams; the ledger functions are called for the (entitlement, exam) pairs of
\* LedgerKeys with every max_attempts, between retake requests and remaining-attempts
\* queries of the student.
LedgerKeys == {<<1, 1>>, <<1, 2>>, <<2, 1>>}
AttemptValues == 1 .. MaxExams

InitLedger ==
    /\ now = 1
    /\ \E m \in AttemptValues : subscriptions = (1 :> [max_exams |-> m])
    /\ user_subscriptions =
          (1 :> [status |-> "active", end_date |-> 4, plan |-> 1])
          @@ (2 :> [status |-> "active", end_date |-> 4, plan |-> 1])
    /\ exams = (1 :> WorkflowExam) @@ (2 :> WorkflowExam)
    /\ exam_questions = WorkflowExamQuestions
    /\ answers = AnswerTable
    /\ NoRequests

NextLedger ==
    \/ \E k \in LedgerKeys : LookupRemaining(k[1], k[2])
    \/ \E k \in LedgerKeys, max_attempts \in AttemptValues :
          EnsureLedger(k[1], k[2], max_attempts)
    \/ \E exam_id \in {1, 2} : RetakeExam(exam_id)
    \/ GetRemainingAttempts(1)

SpecLedger == InitLedger /\ [][NextLedger]_vars

\* Answer submission: a session in progress; the student submits and the answers are
\* updated with any answer id (none, 0, incorrect, correct, unknown) and any is_correct
\* claimed by the caller.
AnswerIds == {None, 0, 1, 2, 3}

InitAnswers ==
    /\ now = 1
    /\ subscriptions = (1 :> [max_exams |-> 1])
    /\ user_subscriptions = (1 :> [status |-> "active", end_date |-> 3, plan |-> 1])
    /\ exams = (1 :> WorkflowExam)
    /\ exam_questions = WorkflowExamQuestions
    /\ answers = AnswerTable
    /\ student_exams = <<[student_id |-> current_user, exam_id |-> 1,
                          status |-> "in_progress"]>>
    /\ exam_attempts = <<[user_subscription_id |-> 1, exam_id |-> 1,
                          remaining_attempts |-> 0]>>
    /\ student_answers = << >>
    /\ exam_results = << >>
    /\ response = [op |-> "start", outcome |-> "ok", value |-> 1]
    /\ workflow = [stage |-> "started", sub |-> 1]
    /\ sweeper = SweeperIdle
    /\ inflight = NoInflight
    /\ app = AppIdle

NextAnswers ==
    \/ \E q \in {1, 2}, a \in AnswerIds, c \in BOOLEAN : SubmitAnswerClaiming(1, q, a, c)
    \/ \E sa \in 1 .. MaxAnswers, a \in AnswerIds, c \in BOOLEAN :
          UpdateStudentAnswer(sa, a, c)

SpecAnswers == InitAnswers /\ [][NextAnswers]_vars

\* The server process from its start: the startup event runs, time passes beyond the
\* end of both entitlements, and the student's requests are served meanwhile; no
\* request asks for the expiry update.
NextScheduler ==
    \/ StartupEvent
    \/ Tick
    \/ CreateStudentExam(1, "not_started")
    \/ StartStudentExam(1)
    \/ CompleteStudentExam(1)
    \/ GetRemainingAttempts(1)

SpecScheduler == Init /\ [][NextScheduler]_vars

\* the startup event is run by the server once it starts, and time does not stop
FairScheduler == SpecScheduler /\ WF_vars(StartupEvent) /\ WF_vars(Tick)

\* The sweeper loop once check_expired_subscriptions is awaited: a table with no row,
\* one row or more than a batch of rows, due at different times; any open, query or
\* commit may fail, and time passes between the iterations.
LoopSizes == {0, 1, batch_size + 1, 2 * batch_size + 1}

InitLoop ==
    /\ now = 2
    /\ subscriptions = (1 :> [max_exams |-> 1])
    /\ \E n \in LoopSizes :
          user_subscriptions = [s \in 1 .. n |-> SweepRow(s, TRUE)]
    /\ exams = (1 :> WorkflowExam)
    /\ exam_questions = WorkflowExamQuestions
    /\ answers = AnswerTable
    /\ student_exams = << >>
    /\ exam_attempts = << >>
    /\ student_answers = << >>
    /\ exam_results = << >>
    /\ response = [op |-> "none", outcome |-> "none", value |-> 0]
    /\ workflow = [stage |-> "fresh", sub |-> 0]
    /\ sweeper = SweeperIdle
    /\ inflight = NoInflight
    /\ app = [AppIdle EXCEPT !.scheduler.task = "running"]

NextLoop ==
    \/ \E opened \in BOOLEAN : LoopOpen(opened)
    \/ LoopQuery
    \/ LoopQueryFails
    \/ \E committed \in BOOLEAN : SweepBatch(committed)
    \/ LoopSleep
    \/ Tick

SpecLoop == InitLoop /\ [][NextLoop]_vars

\* Plan edits: the student holds an entitlement purchased on a plan of two attempts; the
\* administrator edits the plan's max_exams to any positive value, before or after the
\* student creates, starts and retakes the exam and asks for the remaining attempts.
PurchasedPlan == [max_exams |-> 2]

InitPlan ==
    /\ now = 1
    /\ subscriptions = (1 :> PurchasedPlan)
    /\ user_subscriptions = (1 :> [status |-> "active", end_date |-> 3, plan |-> 1])
    /\ exams = (1 :> WorkflowExam)
    /\ exam_questions = WorkflowExamQuestions
    /\ answers = AnswerTable
    /\ NoRequests

NextPlan ==
    \/ \E subscription_id \in {1, 2}, max_exams \in 1 .. MaxExams :
          UpdateSubscription(subscription_id, max_exams)
    \/ CreateStudentExam(1, "not_started")
    \/ StartStudentExam(1)
    \/ RetakeExam(1)
    \/ GetRemainingAttempts(1)

SpecPlan == InitPlan /\ [][NextPlan]_vars

\* Exam editing: teachers create exams and update them with request bodies in which
\* every hierarchy id is absent, 0 or the id of an existing node.
HierarchyBodies == [HierarchyFields -> {None, 0, 1}]

InitExams ==
    /\ now = 1
    /\ subscriptions = (1 :> [max_exams |-> 1])
    /\ user_subscriptions = (1 :> [status |-> "active", end_date |-> 3, plan |-> 1])
    /\ exams = << >>
    /\ exam_questions = << >>
    /\ answers = AnswerTable
    /\ NoRequests

NextExams ==
    \/ \E body \in HierarchyBodies : CreateExam(body)
    \/ \E exam_id \in 1 .. MaxExamRows + 1, body \in HierarchyBodies :
          UpdateExam(exam_id, body)

SpecExams == InitExams /\ [][NextExams]_vars

\* The response cache: GET and POST requests, with and without an Authorization
\* header, on two paths; the handler answers 200 or 404 with a JSON body (0 is an
\* empty, falsy body) or a body that is not JSON; a whole ttl, or a second
\* less, passes between requests.
Methods == {"GET", "POST"}
Statuses == {200, 404}
Bodies == {[json |-> TRUE, data |-> 0], [json |-> TRUE, data |-> 1],
           [json |-> TRUE, data |-> 2], [json |-> FALSE, data |-> 1]}

InitCache ==
    /\ now = 0
    /\ subscriptions = (1 :> [max_exams |-> 1])
    /\ user_subscriptions = (1 :> [status |-> "active", end_date |-> 3, plan |-> 1])
    /\ exams = (1 :> WorkflowExam)
    /\ exam_questions = WorkflowExamQuestions
    /\ answers = AnswerTable
    /\ NoRequests

NextCache ==
    \/ \E method \in Methods, authorization \in BOOLEAN, path \in Paths,
          status \in Statuses, body \in Bodies :
          HttpRequest(method, authorization, path, status, body)
    \/ \E seconds \in {ttl - 1, ttl} : Elapse(seconds)

SpecCache == InitCache /\ [][NextCache]_vars

\* Reading results: the workflow scenario with the result of a known or unknown
\* session read at any point, with and without recalculate.
NextRead ==
    \/ \E status \in ExamStatus : CreateStudentExam(1, status)
    \/ StartStudentExam(1)
    \/ \E a \in {1, 2} : SubmitAnswer(1, 1, a)
    \/ CompleteStudentExam(1)
    \/ \E id \in {1, 2}, recalculate \in BOOLEAN : ReadExamResult(id, recalculate)

SpecRead == InitWorkflow /\ [][NextRead]_vars

\* The rate limiter with a slow client: every request arrives 30 or 90 seconds after
\* the previous one, so no 60 seconds hold more than three of its requests.
Gaps == {30, 90}

NextLimit == \E client_ip \in Clients, gap \in Gaps : RateLimitedRequest(client_ip, gap)

SpecLimit == InitCache /\ [][NextLimit]_vars

\* Requests handled at the same time: in the scenario of the workflow test (one
\* entitlement on a plan of max_exams = 2, inside the exam's window), up to MaxRequests
\* create and start requests of the one student on the one exam are in flight, each
\* between its checks and its commit.
NextRace ==
    \/ \E r \in Requests : CreateBegin(r, 1, "not_started")
    \/ \E r \in Requests : CreateFinish(r)
    \/ \E r \in Requests, id \in Requests : StartBegin(r, id)
    \/ \E r \in Requests, committed \in BOOLEAN : StartFinish(r, committed)

SpecRace == InitWorkflow /\ [][NextRace]_vars

(* ------------------------------ claims --------------------------------- *)
\* max_exams of the plan of the entitlement a ledger row belongs to
PlanMaxOf(row) == subscriptions[user_subscriptions[row.user_subscription_id].plan].max_exams

\* C1: every ledger row (entitlement, exam) satisfies
\* 0 <= remaining_attempts <= max_exams of the entitlement's plan.
C1_LedgerWithinPlanMax ==
    \A i \in DOMAIN exam_attempts :
        /\ 0 <= exam_attempts[i].remaining_attempts
        /\ exam_attempts[i].remaining_attempts <= PlanMaxOf(exam_attempts[i])

\* the outcomes of start that are entitlement violations
EntitlementViolations ==
    {"no_remaining_attempts", "no_active_subscription", "exam_not_started", "exam_ended"}

\* C2: a start request rejected for an entitlement violation (no remaining attempts, no
\* active subscription, outside the exam's window) leaves the ledger, the session
\* status and the session's submitted answers unchanged.
C2_RejectedStartChangesNothing ==
    [][(/\ now' = now
        /\ response'.op = "start"
        /\ response'.outcome \in EntitlementViolations)
       => (/\ exam_attempts' = exam_attempts
           /\ student_exams' = student_exams
           /\ student_answers' = student_answers)]_vars

\* C2 witness: a start was refused for lack of attempts while the session had answers
C2_Witness ==
    /\ response.op = "start"
    /\ response.outcome = "no_remaining_attempts"
    /\ student_exams # << >>
    /\ student_answers # << >>
    /\ exam_attempts # << >>

\* the result rows of a session, in the order they were written
ResultsOf(id) == SelectSeq(exam_results, LAMBDA r : r.student_exam_id = id)

\* C3: each complete writes an attempt_number strictly greater than every attempt_number
\* already stored for the session, the first being 1; the attempt numbers of one
\* session are pairwise distinct.
C3_AttemptNumbersIncrease ==
    \A id \in DOMAIN student_exams :
        LET rs == ResultsOf(id)
        IN  /\ rs # << >> => rs[1].attempt_number = 1
            /\ \A i, j \in DOMAIN rs : i < j => rs[i].attempt_number < rs[j].attempt_number

\* C3 witness: a session completed twice
C3_Witness ==
    /\ Len(ResultsOf(1)) >= 2
    /\ workflow.stage = "off"
    /\ response.op = "complete"

\* C4: a successful start on a session whose status is not not_started deletes all
\* submitted answers of that session and leaves every result row present and
\* unmodified; the result rows of a session never decrease.
C4_RetakeKeepsResults ==
    [][/\ \A id \in DOMAIN student_exams :
             (/\ now' = now
              /\ response' = [op |-> "start", outcome |-> "ok", value |-> id]
              /\ student_exams[id].status # "not_started"
              /\ <<student_exams, exam_attempts>> # <<student_exams', exam_attempts'>>)
             => (/\ \A k \in DOMAIN student_answers' :
                       student_answers'[k].student_exam_id # id
                 /\ exam_results' = exam_results)
       /\ Len(exam_results') >= Len(exam_results)
       /\ SubSeq(exam_results', 1, Len(exam_results)) = exam_results]_vars

\* C4 witness: a completed session with a result row was started again
C4_Witness ==
    /\ workflow.stage = "restarted"
    /\ response = [op |-> "start", outcome |-> "ok", value |-> 1]
    /\ Len(ResultsOf(1)) >= 1
    /\ GetStudentAnswers(1) = << >>

\* max_exams of the plan of the entitlement the workflow's session was created under
WorkflowPlanMax == subscriptions[user_subscriptions[workflow.sub].plan].max_exams

\* the workflow has created, started once and completed the session of exam 1, and the
\* entitlement it was created under is still the one every handler resolves
WorkflowCompleted ==
    /\ workflow.stage = "completed"
    /\ ActiveSubscription = workflow.sub

\* C7 as stated: for a plan with max_exams = N (N >= 1), after create through the
\* endpoint, one start and one complete, the remaining-attempts query returns N - 1
\* and a retake request is accepted.
C7_RemainingAfterFirstAttempt ==
    (WorkflowCompleted /\ WorkflowPlanMax >= 1)
    => /\ RemainingAttempts(1) = WorkflowPlanMax - 1
       /\ response.op = "attempts" => response.value = WorkflowPlanMax - 1
       /\ RetakeOutcome(1) = "ok"

\* C7 amended: for a plan with max_exams = N >= 1, after create through the endpoint,
\* one start and one complete under the same entitlement, the remaining-attempts
\* query returns N - 1; a retake request is accepted exactly when N >= 2, and is
\* refused for lack of attempts when N = 1.
C7_RemainingAfterFirstAttemptAmended ==
    (WorkflowCompleted /\ WorkflowPlanMax >= 1)
    => /\ RemainingAttempts(1) = WorkflowPlanMax - 1
       /\ response.op = "attempts" => response.value = WorkflowPlanMax - 1
       /\ WorkflowPlanMax >= 2 => RetakeOutcome(1) = "ok"
       /\ WorkflowPlanMax = 1 => RetakeOutcome(1) = "no_remaining_attempts"

\* C7 witness: the case of the workflow test, N = 3: the query has answered 2 after
\* create, start and complete, and a retake would be accepted
C7_Witness ==
    /\ WorkflowCompleted
    /\ WorkflowPlanMax = 3
    /\ response = [op |-> "attempts", outcome |-> "ok", value |-> 2]
    /\ RetakeOutcome(1) = "ok"

\* the status changes a session may make
StatusTransitions ==
    {<<"not_started", "in_progress">>, <<"in_progress", "completed">>,
     <<"completed", "in_progress">>}

\* C10: the status of a session changes only along not_started -> in_progress,
\* in_progress -> completed and completed -> in_progress; in particular no request
\* takes a session from not_started directly to completed.
C10_StatusLifecycle ==
    [][\A id \in DOMAIN student_exams :
           student_exams'[id].status # student_exams[id].status
           => <<student_exams[id].status, student_exams'[id].status>> \in StatusTransitions]_vars

\* remaining_attempts of the ledger row of the workflow's entitlement and exam 1
WorkflowRemaining ==
    exam_attempts[ExamAttemptIndex(exam_attempts, workflow.sub, 1)].remaining_attempts

\* both questions of the workflow's exam have a submitted answer flagged correct
BothAnsweredCorrectly ==
    /\ AnsweredCorrectly(GetStudentAnswers(1), 1)
    /\ AnsweredCorrectly(GetStudentAnswers(1), 2)

\* the result row of the scenario: 100 of 100 marks, 100.0 percent, passed, attempt 1
FullMarksResult ==
    <<[student_exam_id |-> 1, attempt_number |-> 1, total_questions |-> 2,
       correct_answers |-> 2, score_percentage |-> 10000, obtained_marks |-> 10000,
       max_marks |-> 10000, passed_status |-> TRUE]>>

C5_ScoreWithinRange ==
    \A i \in DOMAIN exam_results :
        /\ 0 <= exam_results[i].score_percentage
        /\ exam_results[i].score_percentage <= 10000
        /\ exam_results[i].passed_status = (exam_results[i].score_percentage >= 4000)

RECURSIVE MarksOver(_)
\* the sum of the marks of a set of exam-question rows (row indices)
MarksOver(rows) ==
    IF rows = {} THEN 0
    ELSE LET r == CHOOSE x \in rows : TRUE
         IN  exam_questions[r].marks + MarksOver(rows \ {r})

\* the exam-question rows whose question has a submitted answer, the latest of which is
\* flagged correct
CorrectRows ==
    {r \in DOMAIN exam_questions :
        \E k \in DOMAIN student_answers :
            /\ student_answers[k].question_id = exam_questions[r].question_id
            /\ student_answers[k].is_correct
            /\ \A j \in DOMAIN student_answers :
                   student_answers[j].question_id = exam_questions[r].question_id => j <= k}

\* value (in hundredths) is num / den rounded to two places
IsRounded(value, num, den) ==
    /\ 2 * (value * den - 100 * num) <= den
    /\ 2 * (100 * num - value * den) <= den

\* C8: the result row complete has just written has max_marks = (sum of the marks of the
\* exam-question rows / number of rows) * max_questions (0 without rows), obtained_marks
\* = the sum of the marks of the rows answered correctly, correct_answers = their
\* number, score_percentage = obtained_marks / max_marks * 100 rounded to two places (0
\* when max_marks is 0); max_questions = 4 with two 10-mark rows both answered correctly
\* gives 40, 20 and 50.0.
C8_ScoringFormula ==
    (response = [op |-> "complete", outcome |-> "ok", value |-> 1])
    => LET result == exam_results[Len(exam_results)]
           n == Len(exam_questions)
           total == MarksOver(DOMAIN exam_questions)
           mq == exams[1].max_questions
           obtained == MarksOver(CorrectRows)
       IN  /\ result.correct_answers = Cardinality(CorrectRows)
           /\ result.obtained_marks = 100 * obtained
           /\ IF n = 0 THEN result.max_marks = 0
              ELSE IsRounded(result.max_marks, total * mq, n)
           /\ IF n = 0 \/ total * mq = 0 THEN result.score_percentage = 0
              ELSE IsRounded(result.score_percentage, obtained * 100 * n, total * mq)
           /\ (/\ mq = 4
               /\ exam_questions = ExamQuestionRows(<<10, 10>>)
               /\ CorrectRows = {1, 2})
              => (/\ result.max_marks = 4000
                  /\ result.obtained_marks = 2000
                  /\ result.score_percentage = 5000)

\* C8 witness: the example, max_questions = 4 and two 10-mark rows both answered
\* correctly, has been completed
C8_Witness ==
    /\ response = [op |-> "complete", outcome |-> "ok", value |-> 1]
    /\ exams[1].max_questions = 4
    /\ exam_questions = ExamQuestionRows(<<10, 10>>)
    /\ CorrectRows = {1, 2}
    /\ exam_results[Len(exam_results)].score_percentage = 5000

\* the offsets of the batches of the sweeper's list
BatchOffsets ==
    {b \in 0 .. Len(sweeper.expired_subscriptions) : b % batch_size = 0
                                                     /\ b < Len(sweeper.expired_subscriptions)}

\* every row of the batch at offset b has the given status
BatchHasStatus(b, status) ==
    LET batch == Batch(sweeper.expired_subscriptions, b)
    IN  \A k \in DOMAIN batch : user_subscriptions[batch[k]].status = status

\* C9: with a batch size of 100, a sweeper run without failure ends with every eligible
\* row expired, whatever the number of rows; when the commit of a batch fails, the
\* batches before it stay committed as expired and the batches after it are still
\* processed: at the end of the run every batch whose commit did not fail is expired.
C9_SweepBatches ==
    /\ sweeper.pc \in {"batches", "done"}
       => \A b \in BatchOffsets :
              /\ (b < sweeper.i /\ b \notin sweeper.failed) => BatchHasStatus(b, "expired")
              /\ b \in sweeper.failed => BatchHasStatus(b, "active")
    /\ sweeper.pc = "done"
       => /\ \A b \in BatchOffsets : b \notin sweeper.failed => BatchHasStatus(b, "expired")
          /\ sweeper.failed = {}
             => \A s \in DOMAIN user_subscriptions :
                    ~ (/\ user_subscriptions[s].status = "active"
                       /\ user_subscriptions[s].end_date < sweeper.current_time)
    /\ \A s \in DOMAIN user_subscriptions :
           user_subscriptions[s].status = "expired" => user_subscriptions[s].end_date < now

\* C9 witness: a run over more than two batches is over; the commit of the second batch
\* failed, the first and the third batch are expired
C9_Witness ==
    /\ sweeper.pc = "done"
    /\ Len(sweeper.expired_subscriptions) > 2 * batch_size
    /\ sweeper.failed = {batch_size}
    /\ BatchHasStatus(0, "expired")
    /\ BatchHasStatus(batch_size, "active")
    /\ BatchHasStatus(2 * batch_size, "expired")

\* the ledger row of the entitlement in force and the exam of session id has been
\* lowered by one in the step (created one below the plan's maximum when absent)
LedgerDecremented(id) ==
    LET exam_id == student_exams[id].exam_id
        i == ExamAttemptIndex(exam_attempts, ActiveSubscription, exam_id)
    IN  IF i = 0
        THEN /\ Len(exam_attempts') = Len(exam_attempts) + 1
             /\ exam_attempts'[Len(exam_attempts')] =
                    [user_subscription_id |-> ActiveSubscription, exam_id |-> exam_id,
                     remaining_attempts |-> MaxAttempts(ActiveSubscription) - 1]
        ELSE exam_attempts'[i].remaining_attempts = exam_attempts[i].remaining_attempts - 1

\* C11: a successful start changes the session's status to in_progress and lowers the
\* ledger in one commit; when the commit fails an error is answered and neither the
\* status change, the ledger decrement nor the deletion of the previous answers is
\* visible afterwards.
C11_StartIsAtomic ==
    [][\A id \in DOMAIN student_exams :
           /\ (/\ now' = now
               /\ response' = [op |-> "start", outcome |-> "ok", value |-> id]
               /\ <<student_exams, exam_attempts>> # <<student_exams', exam_attempts'>>)
              => (student_exams'[id].status = "in_progress" /\ LedgerDecremented(id))
           /\ (/\ student_exams'[id].status = "in_progress"
               /\ student_exams[id].status # "in_progress")
              => LedgerDecremented(id)
           /\ (/\ now' = now
               /\ response' = [op |-> "start", outcome |-> "commit_failed", value |-> id])
              => (/\ student_exams' = student_exams
                  /\ exam_attempts' = exam_attempts
                  /\ student_answers' = student_answers)]_vars

\* C11 witness: the commit of a retake start has failed: the session is still completed,
\* its answers are still there and the ledger still has the attempt
C11_Witness ==
    /\ response = [op |-> "start", outcome |-> "commit_failed", value |-> 1]
    /\ student_exams[1].status = "completed"
    /\ GetStudentAnswers(1) # << >>
    /\ StartOutcome(1) = "ok"

\* C12: two start requests of one session handled at the same time are not serialised
\* on the ledger: a start that has read the same remaining_attempts v as a start
\* that has already succeeded is not refused when it commits; it succeeds too and
\* writes v - 1 again, so both succeed on one decrement (with v = 1, two starts
\* succeed on a single remaining attempt).
C12_ConcurrentStartsRace ==
    [][\A a, b \in Requests :
           (/\ a # b
            /\ inflight[a].op = "start" /\ inflight[a].pc = "pending"
            /\ inflight[b].op = "start" /\ inflight[b].pc = "done"
            /\ inflight[b].outcome = "ok"
            /\ inflight[a].id = inflight[b].id
            /\ inflight[a].row # 0 /\ inflight[a].row = inflight[b].row
            /\ inflight[a].read = inflight[b].read
            /\ inflight'[a].pc = "done")
           => /\ inflight'[a].outcome \in {"ok", "commit_failed"}
              /\ inflight'[a].outcome = "ok"
                 => /\ exam_attempts'[inflight[a].row].remaining_attempts
                           = inflight[a].read - 1
                    /\ student_exams'[inflight[a].id].status = "in_progress"]_vars

\* C12 witness: two starts of session 1 have both read 1 remaining attempt and both have
\* succeeded; the ledger is at 0
C12_Witness ==
    /\ inflight[1] = [op |-> "start", pc |-> "done", id |-> 1, status |-> "", sub |-> 1,
                      row |-> 1, read |-> 1, session_status |-> "not_started",
                      outcome |-> "ok"]
    /\ inflight[2] = inflight[1]
    /\ exam_attempts[1].remaining_attempts = 0
    /\ student_exams[1].status = "in_progress"

\* C15: there is at most one session row per (student, exam) pair, whatever the
\* sequence or interleaving of create and start requests.
C15_OneSessionPerPair ==
    \A i, j \in DOMAIN student_exams :
        (/\ student_exams[i].student_id = student_exams[j].student_id
         /\ student_exams[i].exam_id = student_exams[j].exam_id)
        => i = j

\* C13: every decrement of a ledger row is the decrement of exactly one successful
\* start, which sets the session in_progress and lowers that row by exactly one;
\* no other request lowers remaining_attempts.
C13_OnlyStartDecrements ==
    [][\A i \in DOMAIN exam_attempts :
           exam_attempts'[i].remaining_attempts < exam_attempts[i].remaining_attempts
           => /\ exam_attempts'[i].remaining_attempts =
                     exam_attempts[i].remaining_attempts - 1
              /\ \E id \in DOMAIN student_exams :
                     /\ response' = [op |-> "start", outcome |-> "ok", value |-> id]
                     /\ student_exams'[id].status = "in_progress"
                     /\ student_exams[id].exam_id = exam_attempts[i].exam_id
              /\ \A j \in DOMAIN exam_attempts :
                     j # i => exam_attempts'[j] = exam_attempts[j]]_vars

\* C14: a create request for a (student, exam) pair that already has a session answers
\* with the existing session and changes nothing: no session row is added, no status
\* changes and every ledger row stays as it was.
C14_CreateIsIdempotent ==
    [][\A exam_id \in DOMAIN exams :
           (/\ ExistingExam(current_user, exam_id) # 0
            /\ response'.op = "create"
            /\ now' = now)
           => /\ response'.outcome = "existing"
              /\ student_exams' = student_exams
              /\ exam_attempts' = exam_attempts
              /\ student_answers' = student_answers
              /\ exam_results' = exam_results]_vars

\* C14 witness: a create request has been answered with the existing session, which is
\* in progress, with a ledger row below the plan's maximum
C14_Witness ==
    /\ response = [op |-> "create", outcome |-> "existing", value |-> 0]
    /\ Len(student_exams) = 1
    /\ student_exams[1].status = "in_progress"
    /\ ActiveSubscription # 0
    /\ RemainingAttempts(1) < MaxAttempts(ActiveSubscription)

\* the checks of start, each on its own
SessionMissing(id) == id \notin DOMAIN student_exams
ExamMissing(id) == student_exams[id].exam_id \notin DOMAIN exams
BeforeWindow(id) ==
    LET s == exams[student_exams[id].exam_id].start_datetime IN s # None /\ now < s
AfterWindow(id) ==
    LET e == exams[student_exams[id].exam_id].end_datetime IN e # None /\ now > e
NoEntitlement ==
    \A u \in DOMAIN user_subscriptions :
        user_subscriptions[u].status # "active" \/ user_subscriptions[u].end_date < now
NoAttemptLeft(id) ==
    \E i \in DOMAIN exam_attempts :
        /\ exam_attempts[i].user_subscription_id = ActiveSubscription
        /\ exam_attempts[i].exam_id = student_exams[id].exam_id
        /\ exam_attempts[i].remaining_attempts <= 0

SessionOps == {"create", "start", "answer", "complete", "retake", "attempts"}

\* C17: while the student has no active subscription (status active, end_date >= now)
\* every exam-session request (create, start, submit answer, complete, retake,
\* remaining-attempts query) fails with a no-active-subscription error; in particular
\* none of them is carried out.
C17_NoEntitlementNoService ==
    [][(NoEntitlement /\ now' = now /\ response'.op \in SessionOps)
       => response'.outcome \notin {"ok", "created"}]_vars

\* C18: completing a session leaves every ledger row as it was, whether the request
\* succeeds or not.
C18_CompleteKeepsLedger ==
    [][(response'.op = "complete" /\ now' = now) => exam_attempts' = exam_attempts]_vars

\* C18 witness: a session that was started has been completed, a result is stored and
\* its ledger row still holds an attempt
C18_Witness ==
    /\ response = [op |-> "complete", outcome |-> "ok", value |-> 1]
    /\ student_exams[1].status = "completed"
    /\ exam_results # << >>
    /\ \E i \in DOMAIN exam_attempts :
          /\ exam_attempts[i].remaining_attempts > 0
          /\ exam_attempts[i].remaining_attempts <
                 MaxAttempts(exam_attempts[i].user_subscription_id)

\* the ledger rows of (entitlement, exam)
RowsOf(sub, exam_id) ==
    {i \in DOMAIN exam_attempts : /\ exam_attempts[i].user_subscription_id = sub
                                  /\ exam_attempts[i].exam_id = exam_id}

\* C19: the remaining-attempts lookup for (entitlement, exam) returns the stored
\* remaining_attempts when a ledger row exists, and the plan's configured maximum when
\* no ledger row exists yet.
C19_LookupDefaultsToPlanMax ==
    [][response'.op = "get_remaining"
       => LET sub == response'.sub
              exam_id == response'.exam_id
          IN  /\ RowsOf(sub, exam_id) # {} =>
                    \E i \in RowsOf(sub, exam_id) :
                        response'.value = exam_attempts[i].remaining_attempts
              /\ RowsOf(sub, exam_id) = {} =>
                    response'.value =
                        subscriptions[user_subscriptions[sub].plan].max_exams]_vars

\* C20: create_or_update_exam_attempt adds a row with remaining_attempts = max_attempts
\* when (entitlement, exam) has none; raises the row to max_attempts when it holds
\* less; otherwise leaves it as it is; it never lowers a row and touches no other.
C20_EnsureLedger ==
    [][response'.op = "ensure_ledger"
       => LET sub == response'.sub
              exam_id == response'.exam_id
              max_attempts == response'.max_attempts
          IN  /\ \A j \in DOMAIN exam_attempts :
                    /\ j \in DOMAIN exam_attempts'
                    /\ exam_attempts'[j].remaining_attempts
                           >= exam_attempts[j].remaining_attempts
                    /\ j \notin RowsOf(sub, exam_id) => exam_attempts'[j] = exam_attempts[j]
              /\ RowsOf(sub, exam_id) = {} =>
                    exam_attempts' =
                        exam_attempts \o << [user_subscription_id |-> sub,
                                             exam_id |-> exam_id,
                                             remaining_attempts |-> max_attempts] >>
              /\ RowsOf(sub, exam_id) # {} =>
                    /\ Len(exam_attempts') = Len(exam_attempts)
                    /\ \A i \in RowsOf(sub, exam_id) :
                          exam_attempts'[i].remaining_attempts =
                              IF exam_attempts[i].remaining_attempts < max_attempts
                              THEN max_attempts
                              ELSE exam_attempts[i].remaining_attempts]_vars

\* C20 witness: the function has been called with a max_attempts below what the row
\* holds, next to a row of the other exam that a retake has lowered
C20_Witness ==
    /\ response.op = "ensure_ledger"
    /\ \E i \in RowsOf(response.sub, response.exam_id) :
          exam_attempts[i].remaining_attempts > response.max_attempts
    /\ \E j \in DOMAIN exam_attempts :
          /\ exam_attempts[j].exam_id # response.exam_id
          /\ exam_attempts[j].remaining_attempts = 0

\* C21: the is_correct stored for a submitted answer depends only on the authoritative
\* answer record of its answer id: it is that record's is_correct, and false when the
\* answer id is missing or unknown, whatever is_correct the caller supplied.
C21_FlagFromAnswerRecord ==
    \A i \in DOMAIN student_answers :
        student_answers[i].is_correct =
            (/\ student_answers[i].answer_id \in DOMAIN answers
             /\ answers[student_answers[i].answer_id].is_correct)

\* the entitlement rows of the scheduler scenario
EntitlementRows == {1, 2}

\* entitlement s is active although its end_date has passed
Overdue(s) ==
    /\ user_subscriptions[s].status = "active"
    /\ user_subscriptions[s].end_date < now

\* C22: once the application has started, the sweeper runs again and again for the
\* lifetime of the process, so every subscription that is active with its end_date
\* passed is eventually set to expired, without any request asking for it.
C22_OverdueEventuallyExpired ==
    \A s \in EntitlementRows :
        (app.scheduler.task # "none" /\ Overdue(s))
            ~> (user_subscriptions[s].status = "expired")

\* C23: no failure inside one sweep terminates the sweeper loop: an exception raised
\* while opening the database session or while updating subscriptions is caught and
\* logged, and the loop goes on to its sleep and the next interval.
C23_LoopSurvivesFailures ==
    app.scheduler.task # "crashed"

\* the rows of the run's list that are stored as expired
CommittedRows ==
    {k \in DOMAIN sweeper.expired_subscriptions :
        user_subscriptions[sweeper.expired_subscriptions[k]].status = "expired"}

\* C30: update_expired_subscriptions returns exactly the number of subscriptions whose
\* status was committed as expired during the run; the rows of a batch whose commit
\* failed and was rolled back are not counted.
C30_CountIsCommittedRows ==
    sweeper.pc = "done" => sweeper.count = Cardinality(CommittedRows)

\* C24: editing a plan's max_exams after the purchase does not change what the existing
\* entitlement grants: the edit leaves every ledger row as it is, a ledger row created
\* later under the entitlement is created from the maximum in force at the purchase,
\* and the remaining-attempts query reports that maximum while no row exists.
C24_PlanEditNotRetroactive ==
    [][/\ response'.op = "update_plan" => exam_attempts' = exam_attempts
       /\ (response'.op = "attempts" /\ response'.outcome = "ok" /\ exam_attempts = << >>)
          => response'.value = PurchasedPlan.max_exams
       /\ Len(exam_attempts') = Len(exam_attempts) + 1
          => exam_attempts'[Len(exam_attempts')].remaining_attempts
                \in {PurchasedPlan.max_exams, PurchasedPlan.max_exams - 1}]_vars

\* C25: in every reachable state there is at most one ledger row per (entitlement,
\* exam) pair, after any sequence of create, start, retake and remaining-attempts
\* requests.
C25_OneLedgerRowPerPair ==
    \A i, j \in DOMAIN exam_attempts :
        (/\ exam_attempts[i].user_subscription_id = exam_attempts[j].user_subscription_id
         /\ exam_attempts[i].exam_id = exam_attempts[j].exam_id)
        => i = j

\* the hierarchy columns of exam e that are set
HierarchySet(e) == {k \in HierarchyFields : exams[e][k] # None}

\* C26: after any sequence of accepted exam create and update requests an exam has at
\* most one of course_id, class_id, subject_id, chapter_id, topic_id set; a request
\* that would leave more than one set is rejected before anything is persisted.
C26_SingleHierarchyAssociation ==
    \A e \in DOMAIN exams : Cardinality(HierarchySet(e)) <= 1

SessionStatuses(sessions) == [i \in DOMAIN sessions |-> sessions[i].status]

\* the highest attempt_number stored for a session, 0 when it has no result
LatestAttemptNumber(results, id) ==
    LET nums == {results[i].attempt_number :
                    i \in {j \in DOMAIN results : results[j].student_exam_id = id}}
    IN  IF nums = {} THEN 0 ELSE CHOOSE n \in nums : \A m \in nums : m <= n

\* C28: reading a session's result through the GET result endpoint, with or without
\* recalculate, is a pure read: it adds no result row, changes no session's status and
\* does not advance the session's attempt numbering.
C28_ReadResultIsPure ==
    [][response'.op = "read_result"
       => /\ Len(exam_results') = Len(exam_results)
          /\ SessionStatuses(student_exams') = SessionStatuses(student_exams)
          /\ \A id \in DOMAIN student_exams :
                 LatestAttemptNumber(exam_results', id)
                     = LatestAttemptNumber(exam_results, id)]_vars

\* C29: the rate limiter allows 500 requests per minute per client address: a request
\* is answered 429 only if the client made more than 500 accepted requests in the
\* preceding 60 seconds.  A client that sends at most one request every 30 seconds
\* stays under that rate and is never rejected.
C29_UnderRateNeverRejected ==
    response.op = "rate_limit" => response.outcome # 429

====
